---- MODULE Spec2Model ----
(***************************************************************************)
(* A model of queue.c: a queue of string elements threaded on a circular,  *)
(* doubly-linked, intrusive list.  The heap is a pair of partial functions *)
(* next/prev over the allocated link nodes and a function value over the   *)
(* allocated elements; a string buffer is a sequence of bytes whose C      *)
(* string is the prefix before the first 0 byte.                           *)
(***************************************************************************)
EXTENDS Integers, Sequences, FiniteSets, TLC

VARIABLES q, next, prev, value, held, op, ret, out, oom, fault, running,
          nIns, nRem, plan, ins, outs, frees, snap

vars == <<q, next, prev, value, held, op, ret, out, oom, fault, running,
          nIns, nRem, plan, ins, outs, frees, snap>>

ghostVars == <<nIns, nRem, plan, ins, outs, frees, snap>>

----------------------------------------------------------------------------
(* Bounds of the model *)

\* most elements allocated at once in the general specification
MaxNodes == 4
\* most elements allocated at once where only the middle deletion is studied
MaxMid == 6
\* longest queue the sort specification starts from
MaxSortLen == 5
\* most elements allocated at once in the string-copy specification
MaxCopyNodes == 1
MaxLife == 3
MaxRelink == 4
\* width of size_t in the model (TLC's integers are 32 bits wide)
SizeBits == 16

----------------------------------------------------------------------------
(* Addresses *)

NULL == 0
\* the sentinel that q_new allocates
HEAD == -1
\* the sentinel that q_delete_dup allocates with q_new
DUP == -2
\* link fields of an unlinked node
POISON == -3
\* the local sentinel `right` of the q_sort call at recursion depth d
RIGHT(d) == -4 - d

SizeMod == 2 ^ SizeBits

\* Maximum length of a stored string (excluding the terminator)
StrCap == 1024

\* content of a caller's buffer before the call
FILL == 170

Min(a, b) == IF a <= b THEN a ELSE b

Upd(f, k, v) == [x \in (DOMAIN f) \cup {k} |-> IF x = k THEN v ELSE f[x]]
Drop(f, S) == [x \in (DOMAIN f) \ S |-> f[x]]

SetNext(L, n, v) == [L EXCEPT !.next = Upd(L.next, n, v)]
SetPrev(L, n, v) == [L EXCEPT !.prev = Upd(L.prev, n, v)]

\* the links of the heap as one value
Links == [next |-> next, prev |-> prev]

----------------------------------------------------------------------------
(* C strings *)

\* a C string with the given content bytes (none of them 0)
Str(content) == content \o <<0>>

Rep(b, n) == [i \in 1..n |-> b]

\* index (1-based) of the first 0 byte of buf, or Len(buf)+1 when there is none
NulAt(buf) ==
    LET Z == {i \in 1..Len(buf) : buf[i] = 0}
    IN  IF Z = {} THEN Len(buf) + 1
        ELSE CHOOSE i \in Z : \A j \in Z : i <= j

Terminated(buf) == NulAt(buf) <= Len(buf)

\* the bytes of the C string held in buf
CStr(buf) == SubSeq(buf, 1, NulAt(buf) - 1)

\* strnlen(s, maxlen)
strnlen(s, maxlen) == Min(NulAt(s) - 1, maxlen)

\* byte i (1-based) of the memory at buf; past the allocation the read is
\* out of bounds and yields the byte junk
ReadByte(buf, i, junk) == IF i <= Len(buf) THEN buf[i] ELSE junk

\* number of bytes strncpy(dst, src, n) takes from src before padding
SrcLen(src, n, junk) ==
    LET k == NulAt(src) - 1
    IN  IF k < Len(src) \/ junk = 0 THEN Min(k, n) ELSE n

\* the n bytes strncpy(dst, src, n) writes to dst[0..n-1]
strncpy(src, n, junk) ==
    LET k == SrcLen(src, n, junk)
    IN  [i \in 1..n |-> IF i <= k THEN ReadByte(src, i, junk) ELSE 0]

\* strncpy(dst, src, n) reads src beyond its allocation
ReadsPast(src, n) == ~Terminated(src) /\ n > Len(src)

\* sign of strcmp(a, b) on the C strings of two buffers
RECURSIVE SeqCmp(_, _, _)
SeqCmp(a, b, i) ==
    IF i > Len(a) /\ i > Len(b) THEN 0
    ELSE IF i > Len(a) THEN -1
    ELSE IF i > Len(b) THEN 1
    ELSE IF a[i] < b[i] THEN -1
    ELSE IF a[i] > b[i] THEN 1
    ELSE SeqCmp(a, b, i + 1)

strcmp(a, b) == SeqCmp(CStr(a), CStr(b), 1)

----------------------------------------------------------------------------
(* The list engine (list.h) *)

INIT_LIST_HEAD(L, h) == SetPrev(SetNext(L, h, h), h, h)

list_empty(L, h) == L.next[h] = h

list_is_singular(L, h) == ~list_empty(L, h) /\ L.prev[h] = L.next[h]

list_add(L, node, h) ==
    LET nx == L.next[h]
        L1 == SetPrev(L, nx, node)
        L2 == SetNext(L1, node, nx)
        L3 == SetPrev(L2, node, h)
    IN  SetNext(L3, h, node)

list_add_tail(L, node, h) ==
    LET pv == L.prev[h]
        L1 == SetNext(L, pv, node)
        L2 == SetNext(L1, node, h)
        L3 == SetPrev(L2, node, pv)
    IN  SetPrev(L3, h, node)

list_del(L, node) ==
    LET nx == L.next[node]
        pv == L.prev[node]
        L1 == SetPrev(L, nx, pv)
        L2 == SetNext(L1, pv, nx)
    IN  SetPrev(SetNext(L2, node, POISON), node, POISON)

list_move(L, node, h) == list_add(list_del(L, node), node, h)

list_splice(L, list, h) ==
    IF list_empty(L, list) THEN L
    ELSE LET hf == L.next[h]
             lf == L.next[list]
             ll == L.prev[list]
             L1 == SetNext(L, h, lf)
             L2 == SetPrev(L1, lf, h)
             L3 == SetNext(L2, ll, hf)
             L4 == SetPrev(L3, hf, ll)
         IN  INIT_LIST_HEAD(L4, list)

\* the nodes list_for_each visits from node n until the sentinel h
RECURSIVE Walk(_, _, _, _)
Walk(L, h, n, fuel) ==
    IF n = h \/ fuel = 0 \/ n \notin DOMAIN L.next THEN <<>>
    ELSE <<n>> \o Walk(L, h, L.next[n], fuel - 1)

\* the elements of the ring of h in ring order
Ring(L, h) ==
    IF h \notin DOMAIN L.next THEN <<>>
    ELSE Walk(L, h, L.next[h], Cardinality(DOMAIN L.next))

Range(s) == {s[i] : i \in 1..Len(s)}

----------------------------------------------------------------------------
(* Allocation *)

\* the address malloc returns for a new element: the lowest one not in use
NewAddr == CHOOSE a \in 1..(Cardinality(DOMAIN value) + 1) : a \notin DOMAIN value

----------------------------------------------------------------------------
(* Pure parts of the queue operations: each maps the links L to the links  *)
(* after the loop or call it models                                        *)

\* the buffer q_insert_head / q_insert_tail allocate and fill for s:
\* len_s = strnlen(s, 1024) + 1 bytes, filled by strncpy(value, s, len_s)
CopyString(s) == strncpy(s, strnlen(s, StrCap) + 1, 0)

\* q_size counting the sentinel as well
q_size_CountsSentinel(L, h) == IF h = NULL THEN 0 ELSE Len(Ring(L, h)) + 1

\* q_size: the number of nodes list_for_each visits
q_size(L, h) == IF h = NULL THEN 0 ELSE Len(Ring(L, h))

\* the loop of q_delete_mid stopping one pair early
RECURSIVE MidLoop_StopsEarly(_, _, _, _)
MidLoop_StopsEarly(L, h, owner, fast) ==
    IF fast # h /\ L.next[fast] # h /\ L.next[L.next[fast]] # h
    THEN MidLoop_StopsEarly(L, h, L.next[owner], L.next[L.next[fast]])
    ELSE owner

\* the loop of q_delete_mid; owner is the node whose next field `indirect`
\* points to; the result is the owner at loop exit
RECURSIVE MidLoop(_, _, _, _)
MidLoop(L, h, owner, fast) ==
    IF fast # h /\ L.next[fast] # h
    THEN MidLoop(L, h, L.next[owner], L.next[L.next[fast]])
    ELSE owner

\* the middle as the split of q_sort finds it (fast starts one node ahead)
RECURSIVE SlowAt_Mid(_, _, _, _)
SlowAt_Mid(L, h, slow, fast) ==
    IF fast # h /\ L.next[fast] # h
    THEN SlowAt_Mid(L, h, L.next[slow], L.next[L.next[fast]])
    ELSE slow

MidNode_FastAhead(L, h) == SlowAt_Mid(L, h, L.next[h], L.next[L.next[h]])

\* the node q_delete_mid unlinks and releases (*indirect after the loop)
MidNode(L, h) == L.next[MidLoop(L, h, h, L.next[h])]

RECURSIVE SwapLoop(_, _, _)
\* a loop that moves the second node of each pair behind the first, where
\* it already is
SwapLoop_MoveBack(L, h, node) ==
    IF node # h /\ L.next[node] # h
    THEN LET tmp == L.next[node]
             L1 == list_move(L, tmp, node)
         IN  SwapLoop(L1, h, L1.next[node])
    ELSE L

\* the loop of q_swap
SwapLoop(L, h, node) ==
    IF node # h /\ L.next[node] # h
    THEN LET tmp == L.next[node]
             L1 == list_move(L, node, tmp)
         IN  SwapLoop(L1, h, L1.next[node])
    ELSE L

q_swap(L, h) == IF h = NULL THEN L ELSE SwapLoop(L, h, L.next[h])

\* the loop of q_reverse that assigns next but leaves prev as it was
RECURSIVE ReverseLoop_NextOnly(_, _, _)
ReverseLoop_NextOnly(L, h, node) ==
    LET L1 == SetNext(L, node, L.prev[node])
        nd == L1.prev[node]
    IN  IF nd # h THEN ReverseLoop_NextOnly(L1, h, nd) ELSE L1

\* the loop of q_reverse that assigns prev but leaves next as it was
RECURSIVE ReverseLoop_PrevOnly(_, _, _)
ReverseLoop_PrevOnly(L, h, node) ==
    LET tmp == L.next[node]
        L1 == SetPrev(L, node, tmp)
        nd == L1.prev[node]
    IN  IF nd # h THEN ReverseLoop_PrevOnly(L1, h, nd) ELSE L1

\* the do-while loop of q_reverse, entered with node = head
RECURSIVE ReverseLoop(_, _, _)
ReverseLoop(L, h, node) ==
    LET tmp == L.next[node]
        L1 == SetNext(L, node, L.prev[node])
        L2 == SetPrev(L1, node, tmp)
        nd == L2.prev[node]
    IN  IF nd # h THEN ReverseLoop(L2, h, nd) ELSE L2

\* a q_reverse whose loop starts at the first element and so never exchanges
\* the links of the sentinel
q_reverse_SkipsSentinel(L, h) ==
    IF h = NULL THEN L
    ELSE IF L.next[h] = h THEN L
    ELSE ReverseLoop(L, h, L.next[h])

q_reverse(L, h) ==
    IF h = NULL THEN L
    ELSE IF L.next[h] = h THEN L
    ELSE ReverseLoop(L, h, h)

\* the inner while loop of merge_two_list never advancing the left cursor
Advance_Stays(L, val, lh, left, right) == left

\* the inner while loop of merge_two_list: the left cursor after advancing
\* past the left elements that are <= the right element
RECURSIVE Advance(_, _, _, _, _)
Advance(L, val, lh, left, right) ==
    IF L.next[left] # lh /\ strcmp(val[left], val[right]) <= 0
    THEN Advance(L, val, lh, L.next[left], right)
    ELSE left

RECURSIVE MergeLoop(_, _, _, _, _, _, _)
\* a merge that puts the right element before an equal left element
MergeLoop_TieBefore(L, val, lh, rh, left, right, safe) ==
    IF right = rh THEN L
    ELSE LET lf == Advance(L, val, lh, left, right)
             cmp_result == strcmp(val[lf], val[right])
             L1 == list_del(L, right)
             L2 == IF cmp_result >= 0 THEN list_add_tail(L1, right, lf)
                                      ELSE list_add(L1, right, lf)
         IN  MergeLoop(L2, val, lh, rh, lf, safe, L2.next[safe])

\* a merge that unlinks a right element smaller than the cursor's and does
\* not link it again
MergeLoop_LosesSmaller(L, val, lh, rh, left, right, safe) ==
    IF right = rh THEN L
    ELSE LET lf == Advance(L, val, lh, left, right)
             cmp_result == strcmp(val[lf], val[right])
             L1 == list_del(L, right)
             L2 == IF cmp_result > 0 THEN L1
                                     ELSE list_add(L1, right, lf)
         IN  MergeLoop(L2, val, lh, rh, lf, safe, L2.next[safe])

\* the list_for_each_safe loop of merge_two_list
MergeLoop(L, val, lh, rh, left, right, safe) ==
    IF right = rh THEN L
    ELSE LET lf == Advance(L, val, lh, left, right)
             cmp_result == strcmp(val[lf], val[right])
             L1 == list_del(L, right)
             L2 == IF cmp_result > 0 THEN list_add_tail(L1, right, lf)
                                     ELSE list_add(L1, right, lf)
         IN  MergeLoop(L2, val, lh, rh, lf, safe, L2.next[safe])

merge_two_list(L, val, lh, rh) ==
    LET left == L.next[lh]
    IN  IF left = lh /\ L.next[rh] # rh THEN list_splice(L, rh, lh)
        ELSE MergeLoop(L, val, lh, rh, left, L.next[rh], L.next[L.next[rh]])

\* a fast/slow loop that never advances the slow pointer
SlowAt_NoAdvance(L, h, slow, fast) == slow

\* the fast/slow loop of q_sort: the slow pointer at loop exit
RECURSIVE SlowAt(_, _, _, _)
SlowAt(L, h, slow, fast) ==
    IF fast # h /\ L.next[fast] # h
    THEN SlowAt(L, h, L.next[slow], L.next[L.next[fast]])
    ELSE slow

\* the split of q_sort: the ring of h cut after slow, the rest on `right`
SplitAt(L, h, slow, right) ==
    LET L0 == INIT_LIST_HEAD(L, right)
        L1 == SetNext(L0, right, L0.next[slow])
        L2 == SetPrev(L1, L1.next[right], right)
        L3 == SetPrev(L2, right, L2.prev[h])
        L4 == SetNext(L3, L3.prev[right], right)
        L5 == SetNext(L4, slow, h)
    IN  SetPrev(L5, h, slow)

\* q_sort called at recursion depth d; its local sentinel leaves the heap
\* when the call returns
RECURSIVE q_sort(_, _, _, _)
q_sort(L, val, h, d) ==
    IF h = NULL THEN L
    ELSE IF L.next[h] = h \/ list_is_singular(L, h) THEN L
    ELSE LET slow == SlowAt(L, h, L.next[h], L.next[L.next[h]])
             right == RIGHT(d)
             L1 == SplitAt(L, h, slow, right)
             L2 == q_sort(L1, val, right, d + 1)
             L3 == q_sort(L2, val, h, d + 1)
             L4 == merge_two_list(L3, val, h, right)
         IN  [next |-> Drop(L4.next, {right}), prev |-> Drop(L4.prev, {right})]

\* the for loop of q_delete_dup with a scratch queue dup # NULL; v is the
\* element whose string `val` points to
RECURSIVE DupLoop(_, _, _, _, _, _, _)
DupLoop(L, val, h, dup, v, node, safe) ==
    IF node = h THEN L
    ELSE LET tmp == L.next[h]
         IN  IF strcmp(val[v], val[tmp]) = 0
             THEN LET L1 == list_move(L, node, dup)
                  IN  DupLoop(L1, val, h, dup, v, safe, L1.next[safe])
             ELSE DupLoop(L, val, h, dup, tmp, safe, L.next[safe])

\* the for loop of q_delete_dup reaches list_move(node, dup_strs)
RECURSIVE DupMoves(_, _, _, _, _, _)
DupMoves(L, val, h, v, node, safe) ==
    IF node = h THEN FALSE
    ELSE LET tmp == L.next[h]
         IN  IF strcmp(val[v], val[tmp]) = 0 THEN TRUE
             ELSE DupMoves(L, val, h, tmp, safe, L.next[safe])

\* the links after the loop of q_delete_dup, dup_strs still allocated
DupCollect(L, val, h) ==
    LET L0 == INIT_LIST_HEAD(L, DUP)
        first == L0.next[h]
        node == L0.next[first]
    IN  DupLoop(L0, val, h, DUP, first, node, L0.next[node])

\* the while loop of q_free on the record H of links and values
RECURSIVE FreeLoop(_, _, _)
\* a loop that stops one element short, leaving the last element linked
FreeLoop_LeavesLast(H, l, node) ==
    IF list_empty(H.L, l) \/ list_is_singular(H.L, l) THEN H
    ELSE LET tmp == node
             nd == H.L.next[node]
             L1 == list_del(H.L, tmp)
         IN  FreeLoop([L |-> [next |-> Drop(L1.next, {tmp}),
                              prev |-> Drop(L1.prev, {tmp})],
                       val |-> Drop(H.val, {tmp}),
                       log |-> Append(H.log, tmp)], l, nd)

\* log is the sequence of addresses handed to q_release_element or free
FreeLoop(H, l, node) ==
    IF list_empty(H.L, l) THEN H
    ELSE LET tmp == node
             nd == H.L.next[node]
             L1 == list_del(H.L, tmp)
         IN  FreeLoop([L |-> [next |-> Drop(L1.next, {tmp}),
                              prev |-> Drop(L1.prev, {tmp})],
                       val |-> Drop(H.val, {tmp}),
                       log |-> Append(H.log, tmp)], l, nd)

\* q_free(l): the links and values left once every element of l and l
\* itself are released, and the addresses released, in order
q_free(L, val, l) ==
    IF l = NULL THEN [L |-> L, val |-> val, log |-> <<>>]
    ELSE LET H == FreeLoop([L |-> L, val |-> val, log |-> <<>>], l, L.next[l])
         IN  [L |-> [next |-> Drop(H.L.next, {l}), prev |-> Drop(H.L.prev, {l})],
              val |-> H.val,
              log |-> Append(H.log, l)]

----------------------------------------------------------------------------
(* Inputs *)

\* the strings "a" and "b"
Strs == {Str(<<97>>), Str(<<98>>)}

\* the strings "a", "ab" and "b"
SortStrs == {Str(<<97>>), Str(<<97, 98>>), Str(<<98>>)}

\* the capacity of the buffer the caller passes to a removal
BufSizes == {2}

\* what a read past the end of an allocation can find
JunkBytes == {0, 97}

NoPlan == [ins |-> "none", rem |-> "none", phase |-> "none"]

\* no links recorded
NoSnap == [next |-> <<>>, prev |-> <<>>, op |-> "none"]

NoOut == [given |-> FALSE, cap |-> 0, buf |-> <<>>, written |-> {}]

----------------------------------------------------------------------------
(* The operations, one action each *)

Init ==
    /\ q \in {HEAD, NULL}
    /\ next = IF q = HEAD THEN (HEAD :> HEAD) ELSE <<>>
    /\ prev = IF q = HEAD THEN (HEAD :> HEAD) ELSE <<>>
    /\ value = <<>>
    /\ held = {}
    /\ op = "new"
    /\ ret = q
    /\ out = NoOut
    /\ oom = (q = NULL)
    /\ fault = "none"
    /\ running = TRUE
    /\ nIns = 0
    /\ nRem = 0
    /\ plan = NoPlan
    /\ ins = <<>>
    /\ outs = <<>>
    /\ frees = <<>>
    /\ snap = NoSnap

q_new(ok) ==
    /\ running
    /\ q = NULL
    /\ op' = "new"
    /\ oom' = ~ok
    /\ out' = NoOut
    /\ IF ok
       THEN LET L1 == INIT_LIST_HEAD(Links, HEAD)
            IN  q' = HEAD /\ next' = L1.next /\ prev' = L1.prev /\ ret' = HEAD
       ELSE ret' = NULL /\ UNCHANGED <<q, next, prev>>
    /\ UNCHANGED <<value, held, fault, running>>

q_free_op ==
    /\ running
    /\ op' = "free"
    /\ oom' = FALSE
    /\ ret' = 0
    /\ out' = NoOut
    /\ LET H == q_free(Links, value, q)
       IN  next' = H.L.next /\ prev' = H.L.prev /\ value' = H.val
    /\ q' = NULL
    /\ UNCHANGED <<held, fault, running>>

\* a q_insert_head that returns without free(node) when the string cannot
\* be allocated
q_insert_head_LeaksNode(cap, s, okNode, okStr) ==
    /\ running
    /\ op' = "insert_head"
    /\ oom' = (~(q = NULL \/ prev[q] = NULL \/ next[q] = NULL) /\ (~okNode \/ ~okStr))
    /\ out' = NoOut
    /\ IF q = NULL \/ prev[q] = NULL \/ next[q] = NULL
       THEN ret' = 0 /\ UNCHANGED <<next, prev, value>>
       ELSE IF ~okNode
       THEN ret' = 0 /\ UNCHANGED <<next, prev, value>>
       ELSE IF ~okStr
       THEN /\ ret' = 0
            /\ next' = Upd(next, NewAddr, POISON)
            /\ prev' = Upd(prev, NewAddr, POISON)
            /\ UNCHANGED value
       ELSE /\ Cardinality(DOMAIN value) < cap
            /\ LET node == NewAddr
                   L1 == list_add(Links, node, q)
               IN  /\ next' = L1.next
                   /\ prev' = L1.prev
                   /\ value' = Upd(value, node, CopyString(s))
            /\ ret' = 1
    /\ UNCHANGED <<q, held, fault, running>>

q_insert_head(cap, s, okNode, okStr) ==
    /\ running
    /\ op' = "insert_head"
    /\ oom' = (~(q = NULL \/ prev[q] = NULL \/ next[q] = NULL) /\ (~okNode \/ ~okStr))
    /\ out' = NoOut
    /\ IF q = NULL \/ prev[q] = NULL \/ next[q] = NULL
       THEN ret' = 0 /\ UNCHANGED <<next, prev, value>>
       ELSE IF ~okNode
       THEN ret' = 0 /\ UNCHANGED <<next, prev, value>>
       ELSE IF ~okStr
       THEN ret' = 0 /\ UNCHANGED <<next, prev, value>>
       ELSE /\ Cardinality(DOMAIN value) < cap
            /\ LET node == NewAddr
                   L1 == list_add(Links, node, q)
               IN  /\ next' = L1.next
                   /\ prev' = L1.prev
                   /\ value' = Upd(value, node, CopyString(s))
            /\ ret' = 1
    /\ UNCHANGED <<q, held, fault, running>>

\* q_insert_tail linking the element at the head
q_insert_tail_AtHead(cap, s, okNode, okStr) ==
    /\ q_insert_head(cap, s, okNode, okStr)

q_insert_tail(cap, s, okNode, okStr) ==
    /\ running
    /\ op' = "insert_tail"
    /\ oom' = (~(q = NULL \/ prev[q] = NULL \/ next[q] = NULL) /\ (~okNode \/ ~okStr))
    /\ out' = NoOut
    /\ IF q = NULL \/ prev[q] = NULL \/ next[q] = NULL
       THEN ret' = 0 /\ UNCHANGED <<next, prev, value>>
       ELSE IF ~okNode
       THEN ret' = 0 /\ UNCHANGED <<next, prev, value>>
       ELSE IF ~okStr
       THEN ret' = 0 /\ UNCHANGED <<next, prev, value>>
       ELSE /\ Cardinality(DOMAIN value) < cap
            /\ LET node == NewAddr
                   L1 == list_add_tail(Links, node, q)
               IN  /\ next' = L1.next
                   /\ prev' = L1.prev
                   /\ value' = Upd(value, node, CopyString(s))
            /\ ret' = 1
    /\ UNCHANGED <<q, held, fault, running>>

\* strncpy(sp, ret_p->value, bufsize); sp[bufsize - 1] = '\0' on a buffer
\* of bufsize bytes, and nothing when sp is NULL
CopyOut(src, spGiven, bufsize) ==
    IF ~spGiven
    THEN out' = NoOut /\ UNCHANGED <<fault, running>>
    ELSE \E junk \in (IF ReadsPast(src, bufsize) THEN JunkBytes ELSE {0}) :
           LET copied == strncpy(src, bufsize, junk)
               idx == (bufsize - 1) % SizeMod
               inb == idx < bufsize
               buf == IF inb THEN [copied EXCEPT ![idx + 1] = 0] ELSE copied
           IN  /\ out' = [given |-> TRUE, cap |-> bufsize, buf |-> buf,
                          written |-> (0..(bufsize - 1)) \cup {idx}]
               /\ fault' = IF ~inb THEN "oob_write"
                           ELSE IF ReadsPast(src, bufsize) THEN "oob_read"
                           ELSE fault
               /\ running' \in (IF ~inb \/ ReadsPast(src, bufsize)
                                THEN BOOLEAN ELSE {TRUE})

q_remove_head(spGiven, bufsize) ==
    /\ running
    /\ op' = "remove_head"
    /\ oom' = FALSE
    /\ IF q = NULL \/ next[q] = q
       THEN /\ ret' = NULL
            /\ out' = [given |-> spGiven, cap |-> IF spGiven THEN bufsize ELSE 0,
                       buf |-> IF spGiven THEN Rep(FILL, bufsize) ELSE <<>>,
                       written |-> {}]
            /\ UNCHANGED <<next, prev, held, fault, running>>
       ELSE LET ret_p == next[q]
                L1 == list_del(Links, next[q])
            IN  /\ next' = L1.next
                /\ prev' = L1.prev
                /\ held' = held \cup {ret_p}
                /\ ret' = ret_p
                /\ CopyOut(value[ret_p], spGiven, bufsize)
    /\ UNCHANGED <<q, value>>

q_remove_tail(spGiven, bufsize) ==
    /\ running
    /\ op' = "remove_tail"
    /\ oom' = FALSE
    /\ IF q = NULL \/ next[q] = q
       THEN /\ ret' = NULL
            /\ out' = [given |-> spGiven, cap |-> IF spGiven THEN bufsize ELSE 0,
                       buf |-> IF spGiven THEN Rep(FILL, bufsize) ELSE <<>>,
                       written |-> {}]
            /\ UNCHANGED <<next, prev, held, fault, running>>
       ELSE LET ret_p == prev[q]
                L1 == list_del(Links, prev[q])
            IN  /\ next' = L1.next
                /\ prev' = L1.prev
                /\ held' = held \cup {ret_p}
                /\ ret' = ret_p
                /\ CopyOut(value[ret_p], spGiven, bufsize)
    /\ UNCHANGED <<q, value>>

\* the caller releases an element a removal handed to it
q_release_element(e) ==
    /\ running
    /\ e \in held
    /\ op' = "release"
    /\ oom' = FALSE
    /\ ret' = 0
    /\ out' = NoOut
    /\ next' = Drop(next, {e})
    /\ prev' = Drop(prev, {e})
    /\ value' = Drop(value, {e})
    /\ held' = held \ {e}
    /\ UNCHANGED <<q, fault, running>>

q_size_op ==
    /\ running
    /\ op' = "size"
    /\ oom' = FALSE
    /\ ret' = q_size(Links, q)
    /\ out' = NoOut
    /\ UNCHANGED <<q, next, prev, value, held, fault, running>>

\* a q_delete_mid that reports success on an absent queue
q_delete_mid_AbsentOk ==
    /\ running
    /\ op' = "delete_mid"
    /\ oom' = FALSE
    /\ out' = NoOut
    /\ IF q = NULL THEN ret' = 1 /\ UNCHANGED <<next, prev, value>>
       ELSE IF list_empty(Links, q)
       THEN ret' = 0 /\ UNCHANGED <<next, prev, value>>
       ELSE LET tmp == MidNode(Links, q)
                L1 == list_del(Links, tmp)
            IN  /\ next' = Drop(L1.next, {tmp})
                /\ prev' = Drop(L1.prev, {tmp})
                /\ value' = Drop(value, {tmp})
                /\ ret' = 1
    /\ UNCHANGED <<q, held, fault, running>>

q_delete_mid ==
    /\ running
    /\ op' = "delete_mid"
    /\ oom' = FALSE
    /\ out' = NoOut
    /\ IF q = NULL \/ list_empty(Links, q)
       THEN ret' = 0 /\ UNCHANGED <<next, prev, value>>
       ELSE LET tmp == MidNode(Links, q)
                L1 == list_del(Links, tmp)
            IN  /\ next' = Drop(L1.next, {tmp})
                /\ prev' = Drop(L1.prev, {tmp})
                /\ value' = Drop(value, {tmp})
                /\ ret' = 1
    /\ UNCHANGED <<q, held, fault, running>>

q_delete_dup(okNew) ==
    /\ running
    /\ op' = "delete_dup"
    /\ oom' = (~(q = NULL \/ next[q] = q) /\ ~okNew)
    /\ out' = NoOut
    /\ IF q = NULL \/ next[q] = q
       THEN ret' = 0 /\ UNCHANGED <<next, prev, value, fault, running>>
       ELSE IF okNew
       THEN LET L1 == DupCollect(Links, value, q)
                H == q_free(L1, value, DUP)
            IN  /\ next' = H.L.next
                /\ prev' = H.L.prev
                /\ value' = H.val
                /\ ret' = 1
                /\ UNCHANGED <<fault, running>>
       ELSE LET first == next[q]
                node == next[first]
            IN  IF DupMoves(Links, value, q, first, node, next[node])
                THEN \* list_move(node, NULL): list_del(node), then
                     \* list_add(node, NULL) reads NULL->next
                     LET L1 == list_del(Links, node)
                     IN  /\ next' = L1.next
                         /\ prev' = L1.prev
                         /\ fault' = "null_deref"
                         /\ running' = FALSE
                         /\ UNCHANGED <<value, ret>>
                ELSE ret' = 1 /\ UNCHANGED <<next, prev, value, fault, running>>
    /\ UNCHANGED <<q, held>>

q_swap_op ==
    /\ running
    /\ op' = "swap"
    /\ oom' = FALSE
    /\ ret' = 0
    /\ out' = NoOut
    /\ LET L1 == q_swap(Links, q)
       IN  next' = L1.next /\ prev' = L1.prev
    /\ UNCHANGED <<q, value, held, fault, running>>

q_reverse_op ==
    /\ running
    /\ op' = "reverse"
    /\ oom' = FALSE
    /\ ret' = 0
    /\ out' = NoOut
    /\ LET L1 == q_reverse(Links, q)
       IN  next' = L1.next /\ prev' = L1.prev
    /\ UNCHANGED <<q, value, held, fault, running>>

q_sort_op ==
    /\ running
    /\ op' = "sort"
    /\ oom' = FALSE
    /\ ret' = 0
    /\ out' = NoOut
    /\ LET L1 == q_sort(Links, value, q, 0)
       IN  next' = L1.next /\ prev' = L1.prev
    /\ UNCHANGED <<q, value, held, fault, running>>

----------------------------------------------------------------------------
(* The general specification: every operation, from a queue made by q_new *)

Next ==
    \/ \E ok \in BOOLEAN : q_new(ok) /\ UNCHANGED ghostVars
    \/ q_free_op /\ UNCHANGED ghostVars
    \/ \E s \in Strs, okNode \in BOOLEAN, okStr \in BOOLEAN :
          q_insert_head(MaxNodes, s, okNode, okStr) /\ UNCHANGED ghostVars
    \/ \E s \in Strs, okNode \in BOOLEAN, okStr \in BOOLEAN :
          q_insert_tail(MaxNodes, s, okNode, okStr) /\ UNCHANGED ghostVars
    \/ \E spGiven \in BOOLEAN, c \in BufSizes :
          q_remove_head(spGiven, c) /\ UNCHANGED ghostVars
    \/ \E spGiven \in BOOLEAN, c \in BufSizes :
          q_remove_tail(spGiven, c) /\ UNCHANGED ghostVars
    \/ \E e \in held : q_release_element(e) /\ UNCHANGED ghostVars
    \/ q_size_op /\ UNCHANGED ghostVars
    \/ q_delete_mid /\ UNCHANGED ghostVars
    \/ \E okNew \in BOOLEAN : q_delete_dup(okNew) /\ UNCHANGED ghostVars
    \/ q_swap_op /\ UNCHANGED ghostVars
    \/ q_reverse_op /\ UNCHANGED ghostVars
    \/ q_sort_op /\ UNCHANGED ghostVars

Spec == Init /\ [][Next]_vars

\* Insertion alone, into an absent queue, a queue made by q_new, or a
\* sentinel whose next or prev was never initialised
InitInsert ==
    /\ q \in {HEAD, NULL}
    /\ \E n \in {HEAD, NULL}, p \in {HEAD, NULL} :
         /\ next = IF q = HEAD THEN (HEAD :> n) ELSE <<>>
         /\ prev = IF q = HEAD THEN (HEAD :> p) ELSE <<>>
    /\ value = <<>>
    /\ held = {}
    /\ op = "new"
    /\ ret = q
    /\ out = NoOut
    /\ oom = (q = NULL)
    /\ fault = "none"
    /\ running = TRUE
    /\ nIns = 0
    /\ nRem = 0
    /\ plan = NoPlan
    /\ ins = <<>>
    /\ outs = <<>>
    /\ frees = <<>>
    /\ snap = NoSnap

NextInsert ==
    \/ \E s \in Strs, okNode \in BOOLEAN, okStr \in BOOLEAN :
          q_insert_head(MaxNodes, s, okNode, okStr) /\ UNCHANGED ghostVars
    \/ \E s \in Strs, okNode \in BOOLEAN, okStr \in BOOLEAN :
          q_insert_tail(MaxNodes, s, okNode, okStr) /\ UNCHANGED ghostVars

SpecInsert == InitInsert /\ [][NextInsert]_vars

\* Life cycle: every operation, with the addresses it released recorded
LogFrees(log) ==
    /\ frees' = log
    /\ UNCHANGED <<nIns, nRem, plan, ins, outs, snap>>

\* the addresses q_delete_mid releases
MidFrees ==
    IF q = NULL \/ list_empty(Links, q) THEN <<>>
    ELSE <<MidNode(Links, q)>>

\* the addresses q_delete_dup releases
DupFrees(okNew) ==
    IF q = NULL \/ next[q] = q \/ ~okNew THEN <<>>
    ELSE q_free(DupCollect(Links, value, q), value, DUP).log

NextLife ==
    \/ \E ok \in BOOLEAN : q_new(ok) /\ LogFrees(<<>>)
    \/ q_free_op /\ LogFrees(q_free(Links, value, q).log)
    \/ \E s \in Strs, okNode \in BOOLEAN, okStr \in BOOLEAN :
          q_insert_head(MaxLife, s, okNode, okStr) /\ LogFrees(<<>>)
    \/ \E s \in Strs, okNode \in BOOLEAN, okStr \in BOOLEAN :
          q_insert_tail(MaxLife, s, okNode, okStr) /\ LogFrees(<<>>)
    \/ \E spGiven \in BOOLEAN, c \in BufSizes :
          q_remove_head(spGiven, c) /\ LogFrees(<<>>)
    \/ \E spGiven \in BOOLEAN, c \in BufSizes :
          q_remove_tail(spGiven, c) /\ LogFrees(<<>>)
    \/ \E e \in held : q_release_element(e) /\ LogFrees(<<e>>)
    \/ q_size_op /\ LogFrees(<<>>)
    \/ q_delete_mid /\ LogFrees(MidFrees)
    \/ \E okNew \in BOOLEAN : q_delete_dup(okNew) /\ LogFrees(DupFrees(okNew))
    \/ q_swap_op /\ LogFrees(<<>>)
    \/ q_reverse_op /\ LogFrees(<<>>)
    \/ q_sort_op /\ LogFrees(<<>>)

SpecLife == Init /\ [][NextLife]_vars

TypeOK ==
    /\ q \in {NULL, HEAD}
    /\ DOMAIN next = DOMAIN prev
    /\ DOMAIN value = DOMAIN next \ {HEAD}
    /\ held \subseteq DOMAIN value

\* the elements of the queue in ring order
RingNow == Ring(Links, q)

\* seq without its i-th entry (1-based)
RemoveAt(seq, i) == SubSeq(seq, 1, i - 1) \o SubSeq(seq, i + 1, Len(seq))

Reverse(seq) == [i \in 1..Len(seq) |-> seq[Len(seq) + 1 - i]]

\* the elements of the ring are in ascending order of strcmp
SortedNow ==
    \A i \in 1..(Len(RingNow) - 1) :
        strcmp(value[RingNow[i]], value[RingNow[i + 1]]) <= 0

----------------------------------------------------------------------------
(* Insertions and removals only, with counts of the successful ones *)

CountIns ==
    /\ nIns' = IF ret' = 1 THEN nIns + 1 ELSE nIns
    /\ UNCHANGED <<nRem, plan, ins, outs, frees, snap>>

CountRem ==
    /\ nRem' = IF ret' # NULL THEN nRem + 1 ELSE nRem
    /\ UNCHANGED <<nIns, plan, ins, outs, frees, snap>>

NextInsRem ==
    \/ \E s \in Strs, okNode \in BOOLEAN, okStr \in BOOLEAN :
          q_insert_head(MaxNodes, s, okNode, okStr) /\ CountIns
    \/ \E s \in Strs, okNode \in BOOLEAN, okStr \in BOOLEAN :
          q_insert_tail(MaxNodes, s, okNode, okStr) /\ CountIns
    \/ \E spGiven \in BOOLEAN, c \in BufSizes :
          q_remove_head(spGiven, c) /\ CountRem
    \/ \E spGiven \in BOOLEAN, c \in BufSizes :
          q_remove_tail(spGiven, c) /\ CountRem
    \/ q_size_op /\ UNCHANGED ghostVars

SpecInsRem == Init /\ [][NextInsRem]_vars

----------------------------------------------------------------------------
(* A round trip: insertions at one end, then removals at one end *)

Plans == {[ins |-> i, rem |-> r, phase |-> "ins"] : i \in {"head", "tail"},
                                                    r \in {"head", "tail"}}

InitRoundTrip ==
    /\ q = HEAD
    /\ next = (HEAD :> HEAD)
    /\ prev = (HEAD :> HEAD)
    /\ value = <<>>
    /\ held = {}
    /\ op = "new"
    /\ ret = q
    /\ out = NoOut
    /\ oom = FALSE
    /\ fault = "none"
    /\ running = TRUE
    /\ nIns = 0
    /\ nRem = 0
    /\ plan \in Plans
    /\ ins = <<>>
    /\ outs = <<>>
    /\ frees = <<>>
    /\ snap = NoSnap

LogIns(s) ==
    /\ ins' = IF ret' = 1 THEN Append(ins, CStr(s)) ELSE ins
    /\ UNCHANGED <<nIns, nRem, plan, outs, frees, snap>>

LogRem ==
    /\ outs' = IF ret' # NULL THEN Append(outs, CStr(value[ret'])) ELSE outs
    /\ plan' = [plan EXCEPT !.phase = "rem"]
    /\ UNCHANGED <<nIns, nRem, ins, frees, snap>>

NextRoundTrip ==
    \/ \E s \in SortStrs, okNode \in BOOLEAN, okStr \in BOOLEAN :
          /\ plan.phase = "ins" /\ plan.ins = "head"
          /\ q_insert_head(MaxNodes, s, okNode, okStr) /\ LogIns(s)
    \/ \E s \in SortStrs, okNode \in BOOLEAN, okStr \in BOOLEAN :
          /\ plan.phase = "ins" /\ plan.ins = "tail"
          /\ q_insert_tail(MaxNodes, s, okNode, okStr) /\ LogIns(s)
    \/ \E spGiven \in BOOLEAN, c \in BufSizes :
          /\ plan.rem = "head"
          /\ q_remove_head(spGiven, c) /\ LogRem
    \/ \E spGiven \in BOOLEAN, c \in BufSizes :
          /\ plan.rem = "tail"
          /\ q_remove_tail(spGiven, c) /\ LogRem

SpecRoundTrip == InitRoundTrip /\ [][NextRoundTrip]_vars

----------------------------------------------------------------------------
(* Sorting and duplicate deletion, from every queue of up to MaxSortLen    *)
(* elements as q_insert_tail builds it                                     *)

SeqsUpTo(S, n) == UNION {[1..k -> S] : k \in 0..n}

\* the links after inserting n elements at the tail of an empty queue
BuildNext(n) ==
    [a \in {HEAD} \cup 1..n |->
        IF a = HEAD THEN (IF n = 0 THEN HEAD ELSE 1)
        ELSE IF a = n THEN HEAD ELSE a + 1]

BuildPrev(n) ==
    [a \in {HEAD} \cup 1..n |->
        IF a = HEAD THEN (IF n = 0 THEN HEAD ELSE n)
        ELSE IF a = 1 THEN HEAD ELSE a - 1]

InitSorted ==
    /\ q = HEAD
    /\ \E strs \in SeqsUpTo(SortStrs, MaxSortLen) :
         /\ next = BuildNext(Len(strs))
         /\ prev = BuildPrev(Len(strs))
         /\ value = [a \in 1..Len(strs) |-> CopyString(strs[a])]
    /\ held = {}
    /\ op = "insert_tail"
    /\ ret = 1
    /\ out = NoOut
    /\ oom = FALSE
    /\ fault = "none"
    /\ running = TRUE
    /\ nIns = 0
    /\ nRem = 0
    /\ plan = NoPlan
    /\ ins = <<>>
    /\ outs = <<>>
    /\ frees = <<>>
    /\ snap = NoSnap

NextSorted ==
    \/ q_sort_op /\ UNCHANGED ghostVars
    \/ q_reverse_op /\ UNCHANGED ghostVars
    \/ \E okNew \in BOOLEAN : q_delete_dup(okNew) /\ UNCHANGED ghostVars

SpecSorted == InitSorted /\ [][NextSorted]_vars

\* Relinking: q_swap, q_reverse and q_sort on an absent queue and on every
\* queue of up to MaxRelink elements, the links before each call recorded
InitRelink ==
    /\ \/ /\ q = NULL
          /\ next = <<>>
          /\ prev = <<>>
          /\ value = <<>>
          /\ op = "new"
          /\ ret = NULL
          /\ oom = TRUE
       \/ /\ q = HEAD
          /\ \E strs \in SeqsUpTo(Strs, MaxRelink) :
               /\ next = BuildNext(Len(strs))
               /\ prev = BuildPrev(Len(strs))
               /\ value = [a \in 1..Len(strs) |-> CopyString(strs[a])]
          /\ op = "insert_tail"
          /\ ret = 1
          /\ oom = FALSE
    /\ held = {}
    /\ out = NoOut
    /\ fault = "none"
    /\ running = TRUE
    /\ nIns = 0
    /\ nRem = 0
    /\ plan = NoPlan
    /\ ins = <<>>
    /\ outs = <<>>
    /\ frees = <<>>
    /\ snap = NoSnap

\* the links and the last operation as they were before the call
Remember ==
    /\ snap' = [next |-> next, prev |-> prev, op |-> op]
    /\ UNCHANGED <<nIns, nRem, plan, ins, outs, frees>>

NextRelink ==
    \/ q_swap_op /\ Remember
    \/ q_reverse_op /\ Remember
    \/ q_sort_op /\ Remember

SpecRelink == InitRelink /\ [][NextRelink]_vars

----------------------------------------------------------------------------
(* Middle deletion on queues of up to MaxMid elements *)

NextMid ==
    \/ \E s \in Strs, okNode \in BOOLEAN, okStr \in BOOLEAN :
          q_insert_tail(MaxMid, s, okNode, okStr) /\ UNCHANGED ghostVars
    \/ q_delete_mid /\ UNCHANGED ghostVars

SpecMid == Init /\ [][NextMid]_vars

----------------------------------------------------------------------------
(* String copies: insertions of strings around the cap and removals into   *)
(* buffers of several capacities                                           *)

\* strings of 0, 2, StrCap, StrCap+1 and 2*StrCap characters
CopyStrs == {Str(<<>>), Str(<<98, 99>>)} \cup
            {Str(Rep(97, n)) : n \in {StrCap, StrCap + 1, 2 * StrCap}}

\* the capacities of the caller's buffer
CopyCaps == {0, 1, 2, 3, StrCap + 2}

LastIns(s) ==
    /\ ins' = IF ret' = 1 THEN <<CStr(s)>> ELSE <<>>
    /\ UNCHANGED <<nIns, nRem, plan, outs, frees, snap>>

LastRem ==
    /\ outs' = IF ret' # NULL THEN <<value[ret']>> ELSE <<>>
    /\ ins' = <<>>
    /\ UNCHANGED <<nIns, nRem, plan, frees, snap>>

NextCopy ==
    \/ \E s \in CopyStrs, okNode \in BOOLEAN, okStr \in BOOLEAN :
          q_insert_head(MaxCopyNodes, s, okNode, okStr) /\ LastIns(s)
    \/ \E s \in CopyStrs, okNode \in BOOLEAN, okStr \in BOOLEAN :
          q_insert_tail(MaxCopyNodes, s, okNode, okStr) /\ LastIns(s)
    \/ \E spGiven \in BOOLEAN, c \in CopyCaps :
          q_remove_head(spGiven, c) /\ LastRem
    \/ \E spGiven \in BOOLEAN, c \in CopyCaps :
          q_remove_tail(spGiven, c) /\ LastRem
    \/ \E e \in held : q_release_element(e) /\ UNCHANGED ghostVars

SpecCopy == Init /\ [][NextCopy]_vars

----------------------------------------------------------------------------
(* The claims *)

\* C1: after any sequence of operations every node n of the ring, the
\* sentinel included, has n.next.prev = n and n.prev.next = n, and the walk
\* along next from the sentinel comes back to the sentinel having visited
\* every linked element exactly once.
C1_RingInvariant ==
    q # NULL =>
        LET r == RingNow
            nodes == {q} \cup Range(r)
        IN  /\ \A n \in nodes :
                  /\ next[n] \in nodes
                  /\ prev[n] \in nodes
                  /\ prev[next[n]] = n
                  /\ next[prev[n]] = n
            /\ Cardinality(Range(r)) = Len(r)
            /\ IF r = <<>> THEN next[q] = q ELSE next[r[Len(r)]] = q
            /\ running => Range(r) = DOMAIN value \ held

\* a sort has rearranged a queue of three or more elements while the caller
\* holds a removed element
C1_Witness ==
    /\ op = "sort"
    /\ Len(RingNow) >= 3
    /\ held # {}
    /\ \E i \in 1..(Len(RingNow) - 1) : RingNow[i] > RingNow[i + 1]

\* C2: over insertions and removals q_size is the number of successful
\* insertions minus the number of successful removals (0 for an absent
\* queue); failed insertions and removals from an empty queue count nothing.
C2_SizeIsNet ==
    /\ q_size(Links, q) = nIns - nRem
    /\ op = "size" => ret = nIns - nRem

\* q_size returned 2 after three insertions and one removal
C2_Witness == op = "size" /\ ret = 2 /\ nIns = 3 /\ nRem = 1

\* the order in which a round trip returns the inserted strings
Expected == IF plan.ins = plan.rem THEN Reverse(ins) ELSE ins

\* C3: after insertions s1..sk at the tail, removals at the head return
\* s1..sk in order; after insertions at the head they return sk..s1; and
\* removals at the tail return from the other end.
C3_RoundTrip ==
    plan.phase # "none" =>
        /\ Len(outs) <= Len(ins)
        /\ outs = SubSeq(Expected, 1, Len(outs))

\* three different strings inserted at the tail all came back from the head
C3_Witness ==
    /\ plan.ins = "tail" /\ plan.rem = "head"
    /\ Len(ins) = 3 /\ Len(outs) = 3
    /\ ins[1] # ins[2] /\ ins[2] # ins[3] /\ ins[1] # ins[3]
    /\ outs = ins

\* C4: after q_sort every element is <= its successor in ring order under
\* byte-wise string comparison.
C4_SortedAfterSort == op = "sort" => SortedNow

\* a sort has moved elements of a five-element queue holding all three strings
C4_Witness ==
    /\ op = "sort"
    /\ Len(RingNow) = 5
    /\ RingNow # <<1, 2, 3, 4, 5>>
    /\ {value[e] : e \in Range(RingNow)} = SortStrs

\* the elements whose string occurs exactly once in the queue, in ring order
UniqueRing ==
    LET Once(e) == Cardinality({i \in 1..Len(RingNow) :
                       strcmp(value[RingNow[i]], value[e]) = 0}) = 1
    IN  SelectSeq(RingNow, Once)

\* C5: q_delete_dup on a queue sorted ascending leaves exactly the elements
\* whose value occurred once, in their original order.
C5_DeleteDupKeepsUnique ==
    [][(op' = "delete_dup" /\ running' /\ ret' = 1 /\ SortedNow) =>
          /\ RingNow' = UniqueRing
          /\ \A e \in Range(RingNow') : value'[e] = value[e]]_vars

\* C6: on a non-empty queue of n elements q_delete_mid returns true and
\* removes exactly the element at zero-based index floor(n/2); the others
\* stay linked in their order.
C6_DeleteMidFloor ==
    [][(op' = "delete_mid" /\ q # NULL /\ Len(RingNow) > 0) =>
          /\ ret' = 1
          /\ RingNow' = RemoveAt(RingNow, (Len(RingNow) \div 2) + 1)
          /\ \A e \in Range(RingNow') : value'[e] = value[e]]_vars

\* q_delete_mid has deleted from a queue of four elements
C6_Witness == op = "delete_mid" /\ ret = 1 /\ Len(RingNow) = 3

C8_StoredTruncated ==
    (op \in {"insert_head", "insert_tail"} /\ ret = 1) =>
        LET e == IF op = "insert_head" THEN next[q] ELSE prev[q]
        IN  value[e] = Str(SubSeq(ins[1], 1, Min(Len(ins[1]), StrCap)))

\* C9: a removal given a buffer of capacity c writes only indices 0..c-1,
\* and leaves in it the first min(len(value), c-1) bytes of the element's
\* string followed by a terminator.
C9_CopyOutWithinCapacity ==
    (op \in {"remove_head", "remove_tail"} /\ ret # NULL /\ out.given) =>
        LET v == CStr(outs[1])
        IN  /\ out.written \subseteq 0..(out.cap - 1)
            /\ Terminated(out.buf)
            /\ CStr(out.buf) = SubSeq(v, 1, Min(Len(v), out.cap - 1))

\* C10: an operation that meets an allocation failure (the element or the
\* string of an insertion, the scratch queue of q_delete_dup) returns
\* failure without dereferencing the failed allocation and leaves the ring
\* as it was.
C10_AllocFailureHandled ==
    [][(oom' /\ op' \in {"insert_head", "insert_tail", "delete_dup"}) =>
          /\ running'
          /\ fault' = "none"
          /\ ret' = 0
          /\ UNCHANGED <<next, prev, value>>]_vars

\* the element records linked in the queue
Linked == Range(RingNow)

\* C11: every allocated element is either linked in the queue or handed to
\* the caller by a remove, never both; an element stops being allocated only
\* by being released, each address is released at most once per operation
\* and only while allocated, an element held by the caller is released by
\* q_release_element alone, and q_free releases every linked element and the
\* sentinel exactly once, leaving only the caller's elements allocated
C11_Lifecycle ==
    [][running' =>
          /\ Linked' \cap held' = {}
          /\ DOMAIN value' = Linked' \cup held'
          /\ \A i, j \in 1..Len(frees') : frees'[i] = frees'[j] => i = j
          /\ \A a \in Range(frees') :
                a \in DOMAIN next \cup {DUP} /\ a \notin DOMAIN next'
          /\ DOMAIN value \ DOMAIN value' = Range(frees') \ {q, DUP}
          /\ op' # "release" => Range(frees') \cap held = {}
          /\ (op' = "free" /\ q # NULL) =>
                /\ Range(frees') = Linked \cup {q}
                /\ Len(frees') = Len(RingNow) + 1
                /\ DOMAIN value' = held
                /\ DOMAIN next' = held]_vars

\* q_free has released two linked elements and the sentinel while the
\* caller still holds a removed element
C11_Witness ==
    /\ op = "free"
    /\ Len(frees) = 3
    /\ held # {}
    /\ DOMAIN value = held

\* the position of element e in the sequence seq
Pos(seq, e) == CHOOSE i \in 1..Len(seq) : seq[i] = e

\* the two sorted halves q_sort hands to its outermost merge_two_list
SortedHalves ==
    LET slow == SlowAt(Links, q, next[q], next[next[q]])
        L1 == SplitAt(Links, q, slow, RIGHT(0))
        L2 == q_sort(L1, value, RIGHT(0), 1)
    IN  q_sort(L2, value, q, 1)

\* C12: q_sort is stable: two elements with equal values are in the same
\* relative order after the sort as before it, and the outermost merge puts
\* every element of the left half before every equal element of the right
\* half
C12_SortStable ==
    [][op' = "sort" =>
          /\ \A a, b \in Linked :
                (strcmp(value[a], value[b]) = 0
                    /\ Pos(RingNow, a) < Pos(RingNow, b))
                => Pos(RingNow', a) < Pos(RingNow', b)
          /\ Len(RingNow) >= 2 =>
                LET H == SortedHalves
                    M == Ring(merge_two_list(H, value, q, RIGHT(0)), q)
                IN  \A a \in Range(Ring(H, q)), b \in Range(Ring(H, RIGHT(0))) :
                       strcmp(value[a], value[b]) = 0 => Pos(M, a) < Pos(M, b)]_vars

\* q_sort has moved an element past two equal elements that kept their order
C12_Witness ==
    /\ op = "sort"
    /\ Len(RingNow) >= 3
    /\ value[RingNow[1]] = value[RingNow[2]]
    /\ RingNow[1] < RingNow[2]
    /\ RingNow[3] < RingNow[2]

\* seq with the entries at positions 2i and 2i+1 (counted from 0) exchanged
SwapPairs(seq) ==
    [i \in 1..Len(seq) |->
        IF i % 2 = 1 THEN (IF i + 1 <= Len(seq) THEN seq[i + 1] ELSE seq[i])
        ELSE seq[i - 1]]

\* C13: q_swap exchanges the elements of each adjacent pair, leaves an odd
\* last element in place, keeps prev the inverse of next, and changes
\* nothing on an absent or empty queue
C13_SwapPairs ==
    [][op' = "swap" =>
          /\ RingNow' = SwapPairs(RingNow)
          /\ \A n \in DOMAIN next' : prev'[next'[n]] = n
          /\ value' = value
          /\ (q = NULL \/ Len(RingNow) = 0) => UNCHANGED <<next, prev>>]_vars

\* q_swap has exchanged the two pairs of a four-element queue
C13_Witness ==
    /\ op = "swap"
    /\ Len(RingNow) = 4
    /\ snap # NoSnap
    /\ Ring(snap, q) = SwapPairs(RingNow)
    /\ RingNow # Ring(snap, q)

\* C14: a second q_reverse directly after a first one restores the next and
\* prev link of every node, and with them the order of the elements, to
\* what they were before the first
C14_ReverseTwice ==
    [][(op = "reverse" /\ op' = "reverse") =>
          /\ next' = snap.next
          /\ prev' = snap.prev
          /\ RingNow' = Ring(snap, q)
          /\ value' = value]_vars

\* two consecutive calls of q_reverse on a four-element queue, the first
\* of which changed the order
C14_Witness ==
    /\ op = "reverse"
    /\ snap.op = "reverse"
    /\ Len(RingNow) = 4
    /\ Ring(snap, q) = Reverse(RingNow)

\* C15: with an absent queue every operation returns its failure result and
\* touches nothing: q_free, q_swap, q_reverse and q_sort do nothing,
\* q_insert_head, q_insert_tail, q_delete_mid and q_delete_dup return false,
\* q_remove_head and q_remove_tail return no element, q_size returns 0; no
\* call faults, allocates or releases
C15_AbsentQueue ==
    [][(q = NULL /\ op' \notin {"new", "release"}) =>
          /\ running'
          /\ fault' = "none"
          /\ UNCHANGED <<q, next, prev, value, held>>
          /\ frees' = <<>>
          /\ op' \in {"insert_head", "insert_tail", "delete_mid", "delete_dup"}
                => ret' = 0
          /\ op' \in {"remove_head", "remove_tail"} => ret' = NULL
          /\ op' = "size" => ret' = 0]_vars

\* q_delete_mid was called after q_free with an element still held by the
\* caller
C15_Witness ==
    /\ q = NULL
    /\ op = "delete_mid"
    /\ ret = 0
    /\ held # {}

\* C16: q_delete_dup on a valid, empty queue changes nothing and returns
\* true; it returns false only when the queue is absent
C16_DeleteDupEmptyTrue ==
    [][(op' = "delete_dup" /\ running') =>
          /\ (q # NULL /\ next[q] = q) =>
                (ret' = 1 /\ UNCHANGED <<next, prev, value>>)
          /\ ret' = 0 => q = NULL]_vars

\* C17: q_insert_head and q_insert_tail return false when the queue is
\* absent, when the next or prev of its sentinel is null, and when the
\* element or its string cannot be allocated; a call that returns false
\* leaves the ring, the stored values and the set of allocated records
\* exactly as they were, without fault
C17_InsertFailure ==
    [][op' \in {"insert_head", "insert_tail"} =>
          /\ (q = NULL \/ next[q] = NULL \/ prev[q] = NULL \/ oom') => ret' = 0
          /\ ret' = 0 =>
                /\ UNCHANGED <<q, next, prev, value, held>>
                /\ running'
                /\ fault' = "none"]_vars

\* an insertion into a two-element queue failed on an allocation
C17_Witness ==
    /\ op \in {"insert_head", "insert_tail"}
    /\ ret = 0
    /\ oom
    /\ Len(RingNow) = 2

\* C18: q_reverse turns [v0..v(n-1)] into [v(n-1)..v0]; the next and prev
\* fields of the sentinel and of every element are exchanged, once each; a
\* queue of no or one element, and an absent queue, keep every link
C18_ReverseOrder ==
    [][op' = "reverse" =>
          /\ RingNow' = Reverse(RingNow)
          /\ (q # NULL /\ Len(RingNow) > 0) =>
                \A n \in DOMAIN next :
                   next'[n] = prev[n] /\ prev'[n] = next[n]
          /\ Len(RingNow) <= 1 => UNCHANGED <<next, prev>>
          /\ DOMAIN next' = DOMAIN next
          /\ value' = value]_vars

\* q_reverse has turned a four-element queue around
C18_Witness ==
    /\ op = "reverse"
    /\ snap.op # "reverse"
    /\ Len(RingNow) = 4
    /\ RingNow = Reverse(Ring(snap, q))
    /\ \A n \in DOMAIN next : next[n] = snap.prev[n] /\ prev[n] = snap.next[n]

\* C19: q_sort, q_swap and q_reverse only relink: the same element records
\* are linked before and after, none twice, every stored value is unchanged
\* and no record is allocated or released
C19_OnlyRelink ==
    [][op' \in {"sort", "swap", "reverse"} =>
          /\ Linked' = Linked
          /\ Len(RingNow') = Len(RingNow)
          /\ value' = value
          /\ DOMAIN next' = DOMAIN next
          /\ DOMAIN prev' = DOMAIN prev
          /\ UNCHANGED <<q, held>>]_vars

\* q_sort has reordered a four-element queue
C19_Witness ==
    /\ op = "sort"
    /\ Len(RingNow) = 4
    /\ RingNow # Ring(snap, q)
    /\ Range(Ring(snap, q)) = Linked

\* next and prev of links L form one closed ring through h
RingOK(L, h) ==
    LET ns == <<h>> \o Ring(L, h)
        succ(i) == (i % Len(ns)) + 1
    IN  /\ \A i, j \in 1..Len(ns) : ns[i] = ns[j] => i = j
        /\ \A i \in 1..Len(ns) :
              L.next[ns[i]] = ns[succ(i)] /\ L.prev[ns[succ(i)]] = ns[i]

\* every call of q_sort on the ring of h, the recursive ones included, that
\* gets past the guard splits its n elements into the first ceil(n/2) on h
\* and the other floor(n/2) on its local sentinel, both rings closed,
\* non-empty and shorter than n, and reaches merge_two_list with the ring
\* of h non-empty
RECURSIVE SplitsOK(_, _, _, _)
SplitsOK(L, val, h, d) ==
    IF h = NULL THEN TRUE
    ELSE IF L.next[h] = h \/ list_is_singular(L, h) THEN TRUE
    ELSE LET n == Len(Ring(L, h))
             slow == SlowAt(L, h, L.next[h], L.next[L.next[h]])
             right == RIGHT(d)
             L1 == SplitAt(L, h, slow, right)
             L2 == q_sort(L1, val, right, d + 1)
             L3 == q_sort(L2, val, h, d + 1)
             lr == Ring(L1, h)
             rr == Ring(L1, right)
         IN  /\ RingOK(L1, h)
             /\ RingOK(L1, right)
             /\ Len(lr) = (n + 1) \div 2
             /\ Len(rr) = n \div 2
             /\ Len(lr) > 0 /\ Len(lr) < n
             /\ Len(rr) > 0 /\ Len(rr) < n
             /\ lr \o rr = Ring(L, h)
             /\ ~list_empty(L3, h)
             /\ SplitsOK(L1, val, right, d + 1)
             /\ SplitsOK(L2, val, h, d + 1)

\* C20: for a queue of n >= 2 elements the fast/slow split of q_sort, at
\* every level of the recursion, leaves the first ceil(n/2) elements on the
\* original sentinel and the other floor(n/2) on the local one, two closed
\* rings that are non-empty and shorter than n, so the recursion descends
\* on ever shorter rings and merge_two_list is never called with an empty
\* left ring
C20_SplitShrinks ==
    [][op' = "sort" => SplitsOK(Links, value, q, 0)]_vars

\* q_sort has sorted a five-element queue that was not in order: splits of
\* 3 + 2, 2 + 1 and 1 + 1
C20_Witness ==
    /\ op = "sort"
    /\ Len(RingNow) = 5
    /\ RingNow # <<1, 2, 3, 4, 5>>

====
